---- MODULE Spec2Model ----
(***************************************************************************)
(* Model of the three backup scripts of windows-b2-rclone-backup:          *)
(*   backup_to_b2.py  (stats, per-file failure isolation, Discord summary) *)
(*   old_goody.py     (exclusion list, daily schtasks registration)        *)
(*   Backup-ToB2.py   (interactive one-shot upload)                        *)
(* One run of one script is one behaviour.  Python str values are         *)
(* sequences of one-character strings, so that strip(), lower(), split(),  *)
(* replace() and Path.suffix are computed the way the code computes them.  *)
(***************************************************************************)
EXTENDS Integers, Sequences, FiniteSets, TLC

\* Largest number of entries root.rglob("*") yields in a modelled run.
MaxEntries == 3

\* backup_to_b2.py:200, the attachment threshold in bytes.
AttachLimit == 7500000

Scripts == {"backup_to_b2", "old_goody", "Backup-ToB2"}

-----------------------------------------------------------------------------
(* Python values *)

None == [none |-> TRUE, v |-> <<>>]
Str(s) == [none |-> FALSE, v |-> s]

\* `not x` for x a str or None.
Falsy(x) == x.none \/ x.v = <<>>

LowerChar(c) == IF c = "T" THEN "t" ELSE IF c = "L" THEN "l" ELSE c

Lower(s) == [i \in 1..Len(s) |-> LowerChar(s[i])]

RECURSIVE LStrip(_)
LStrip(s) == IF s # <<>> /\ Head(s) = " " THEN LStrip(Tail(s)) ELSE s

RECURSIVE RStrip(_)
RStrip(s) ==
    IF s # <<>> /\ s[Len(s)] = " " THEN RStrip(SubSeq(s, 1, Len(s) - 1)) ELSE s

Strip(s) == RStrip(LStrip(s))

Replace(s, a, b) == [i \in 1..Len(s) |-> IF s[i] = a THEN b ELSE s[i]]

\* Largest index of c in s, 0 when absent (str.rfind, 1-based).
RFind(s, c) ==
    LET I == {i \in 1..Len(s) : s[i] = c}
    IN  IF I = {} THEN 0 ELSE CHOOSE i \in I : \A j \in I : j <= i

\* s.split(c)
RECURSIVE Split(_, _)
Split(s, c) ==
    LET I == {i \in 1..Len(s) : s[i] = c}
    IN  IF I = {} THEN <<s>>
        ELSE LET k == CHOOSE i \in I : \A j \in I : i <= j
             IN  <<SubSeq(s, 1, k - 1)>> \o Split(SubSeq(s, k + 1, Len(s)), c)

\* s.zfill(2)
Zfill2(s) ==
    IF Len(s) >= 2 THEN s ELSE IF Len(s) = 1 THEN <<"0">> \o s ELSE <<"0", "0">>

\* Final component of a path written with the host separator.
BaseName(p) == SubSeq(p, RFind(p, "\\") + 1, Len(p))

\* Path.suffix: the part of the final component from its last dot, unless
\* that dot leads or ends the name.
Suffix(p) ==
    LET name == BaseName(p)
        i == RFind(name, ".")
    IN  IF 1 < i /\ i < Len(name) THEN SubSeq(name, i, Len(name)) ELSE <<>>

-----------------------------------------------------------------------------
(* The environment: the local tree, exclude_patterns.txt, the prompts *)

\* Relative paths of the regular files the traversal may meet.
FilePaths ==
    { <<"l", ".", "t">>,                \* l.t
      <<"l", ".", "T">>,                \* l.T
      <<".", "t">>,                     \* .t     (dot file: no suffix)
      <<"d", "\\", "l", ".", "l">> }    \* d\l.l  (in a sub-directory)

DirPaths == { <<"d">> }

Entries ==
    [kind : {"file"}, path : FilePaths] \cup [kind : {"dir"}, path : DirPaths]

NoFile == [exists |-> FALSE, lines |-> <<>>]
FileOf(ls) == [exists |-> TRUE, lines |-> ls]

\* exclude_patterns.txt as a previous run or an editor may have left it.
PriorExcludeFiles ==
    { NoFile, FileOf(<< <<".", "T">> >>), FileOf(<< <<" ", ".", "l", " ">>, <<>> >>) }

\* Answers to the "Exclude file extensions?" prompt, already split on ",".
TypedExcludes ==
    { <<>>,                                                \* left blank
      << <<".", "T">> >>,                                  \* ".T"
      << <<".", "l">>, <<" ", ".", "t">>, <<>> >> }        \* ".l, .t,"

TypedWebhooks == { <<>>, <<"h">> }

StoredWebhooks == { None, Str(<<>>), Str(<<"h">>) }

TypedSchedules == { <<>>, <<"3", ":", "0">>, <<"3", "0">> }

StoredSchedules == { None } \cup { Str(s) : s \in TypedSchedules }

UploadErrors == { "ServiceError", "Unauthorized" }

BucketResults == { "ok", "NonExistentBucket", "ServiceError" }

LogSizes == { 0, AttachLimit - 1, AttachLimit, AttachLimit + 1 }

LogFiles == { [exists |-> FALSE, size |-> 0] } \cup [exists : {TRUE}, size : LogSizes]

-----------------------------------------------------------------------------
(* exclude_patterns.txt *)

RECURSIVE NonBlank(_)
NonBlank(toks) ==
    IF toks = <<>> THEN <<>>
    ELSE IF Strip(Head(toks)) = <<>> THEN NonBlank(Tail(toks))
    ELSE <<Head(toks)>> \o NonBlank(Tail(toks))

\* The lines prompt_and_save_env writes for the typed tokens.
ExcludeLines(s, typed) ==
    LET kept == NonBlank(typed)
    IN  [i \in 1..Len(kept) |->
            IF s = "backup_to_b2" THEN Lower(Strip(kept[i])) ELSE Strip(kept[i])]

\* prompt_and_save_env: write the list, or remove a stale one on a blank answer.
SaveExclude(s, typed, old) ==
    IF typed # <<>> THEN FileOf(ExcludeLines(s, typed)) ELSE NoFile

\* The collection should_exclude builds from the file.
ReadExcluded(s, f) ==
    LET kept == NonBlank(f.lines)
    IN  { IF s = "old_goody" THEN Lower(Strip(kept[i])) ELSE Strip(kept[i]) :
            i \in 1..Len(kept) }

\* Faulty variant: the suffix is compared without lower-casing it.
should_exclude_caseSensitive(s, path, f) ==
    /\ s # "Backup-ToB2"
    /\ f.exists
    /\ Suffix(path) \in ReadExcluded(s, f)

should_exclude(s, path, f) ==
    /\ s # "Backup-ToB2"
    /\ f.exists
    /\ Lower(Suffix(path)) \in ReadExcluded(s, f)

\* The object key of a file: its path relative to the root with "/" separators.
Remote(path) == Replace(path, "\\", "/")

-----------------------------------------------------------------------------
(* BackupStats *)

NewStats == [files_uploaded |-> 0, files_failed |-> 0, files_skipped |-> 0,
             errors |-> <<>>]

\* Faulty variant: a skipped file is not counted.
RecordSkipped_uncounted(st) == st
RecordSkipped(st) == [st EXCEPT !.files_skipped = @ + 1]

RecordUploaded(st) == [st EXCEPT !.files_uploaded = @ + 1]

\* Faulty variant: the newest error is put first.
RecordFailed_prepend(st, remote, e) ==
    [st EXCEPT !.files_failed = @ + 1,
               !.errors = <<[remote |-> remote, detail |-> e]>> \o @]
RecordFailed(st, remote, e) ==
    [st EXCEPT !.files_failed = @ + 1,
               !.errors = Append(@, [remote |-> remote, detail |-> e])]

\* Whether the script's upload loop wraps the upload call in try/except.
\* Faulty variant: no script catches.
CatchesUploadError_never(s) == FALSE
CatchesUploadError(s) == s = "backup_to_b2"

\* The line the script writes for a file handed to the upload call.
UploadLine(s, r) ==
    IF s = "backup_to_b2" THEN (IF r = "ok" THEN "Uploaded" ELSE "Failed")
    ELSE "Uploading"

\* The attachment test of send_discord_summary.
\* Faulty variant: a log of exactly the threshold size is attached.
CanAttach_inclusive(lf) == lf.exists /\ lf.size <= AttachLimit
CanAttach(lf) == lf.exists /\ lf.size < AttachLimit

-----------------------------------------------------------------------------
(* main(): the stage that follows stage `at` *)

\* Faulty variant: notification / registration precede the upload.
MainNext_notifyFirst(s, at) ==
    IF s = "backup_to_b2" THEN
        CASE at = "config"   -> "connect"
          [] at = "connect"  -> "notify"
          [] at = "notify"   -> "bucket"
          [] at = "upload"   -> "print"
          [] OTHER           -> "print"
    ELSE IF s = "old_goody" THEN
        CASE at = "config"   -> "connect"
          [] at = "connect"  -> "schedule"
          [] at = "schedule" -> "bucket"
          [] at = "upload"   -> "print"
          [] OTHER           -> "print"
    ELSE
        CASE at = "config"   -> "connect"
          [] at = "connect"  -> "bucket"
          [] OTHER           -> "print"

MainNext(s, at) ==
    IF s = "backup_to_b2" THEN
        CASE at = "config"   -> "connect"
          [] at = "connect"  -> "bucket"
          [] at = "upload"   -> "notify"
          [] OTHER           -> "print"
    ELSE IF s = "old_goody" THEN
        CASE at = "config"   -> "connect"
          [] at = "connect"  -> "bucket"
          [] at = "upload"   -> "schedule"
          [] OTHER           -> "print"
    ELSE
        CASE at = "config"   -> "connect"
          [] at = "connect"  -> "bucket"
          [] OTHER           -> "print"

CompletionMessage(s) ==
    IF s = "backup_to_b2" THEN "Backup complete."
    ELSE IF s = "old_goody" THEN "Backup complete and task scheduled!"
    ELSE "Backup completed successfully!"

-----------------------------------------------------------------------------
(* State of one run *)

VARIABLES
    script,             \* the script being run
    pc,                 \* the stage main() is at
    rootExists,         \* whether the configured local root is a directory
    excludeFile,        \* exclude_patterns.txt
    cfg,                \* the dict load_config returns
    authed,             \* authorize_account has succeeded
    visited,            \* the entries rglob has yielded so far, in order
    traversalComplete,  \* the upload loop has run to its end
    stats,              \* BackupStats
    log,                \* the per-file lines written so far, in order
    uploadCalls,        \* the calls made to bucket.upload / upload_bytes
    logFile,            \* the log artifact as send_discord_summary found it
    logOpened,          \* the log artifact was opened for attachment
    postCalls,          \* the calls made to requests.post
    schedCalls,         \* the schtasks commands run
    taskExists,         \* the host scheduler holds the task
    messages,           \* what the run printed about its own outcome
    raisedIn,           \* the function an uncaught exception came from
    exitCode            \* -1 while running, then the process exit code

vars == <<script, pc, rootExists, excludeFile, cfg, authed, visited,
          traversalComplete, stats, log, uploadCalls, logFile, logOpened,
          postCalls, schedCalls, taskExists, messages, raisedIn, exitCode>>

uploadVars == <<visited, traversalComplete, stats, log, uploadCalls>>
notifyVars == <<logFile, logOpened, postCalls>>
schedVars == <<schedCalls, taskExists>>
envVars == <<script, rootExists>>

Init ==
    /\ script \in Scripts
    /\ pc = "config"
    /\ rootExists \in BOOLEAN
    /\ excludeFile \in PriorExcludeFiles
    /\ cfg = [discord_webhook |-> None, schedule |-> None]
    /\ authed = FALSE
    /\ visited = <<>>
    /\ traversalComplete = FALSE
    /\ stats = NewStats
    /\ log = <<>>
    /\ uploadCalls = <<>>
    /\ logFile = [exists |-> FALSE, size |-> 0]
    /\ logOpened = FALSE
    /\ postCalls = <<>>
    /\ schedCalls = <<>>
    /\ taskExists = FALSE
    /\ messages = <<>>
    /\ raisedIn = ""
    /\ exitCode = -1

\* An exception nobody catches leaves main(): traceback, exit status 1.
Crash(fn) ==
    /\ pc' = "crashed"
    /\ raisedIn' = fn
    /\ exitCode' = 1

\* sys.exit(1) after an explanatory message.
Exit1(msg) ==
    /\ pc' = "exited"
    /\ messages' = Append(messages, msg)
    /\ exitCode' = 1
    /\ UNCHANGED raisedIn

-----------------------------------------------------------------------------
(* load_config of backup_to_b2.py and old_goody.py *)

\* .env is there: the stored values are read back.
LoadStoredConfig ==
    /\ pc = "config"
    /\ script # "Backup-ToB2"
    /\ \E w \in StoredWebhooks, t \in StoredSchedules :
        cfg' = [discord_webhook |-> IF script = "backup_to_b2" THEN w ELSE None,
                schedule |-> IF script = "old_goody" THEN t ELSE None]
    /\ pc' = MainNext(script, "config")
    /\ UNCHANGED <<envVars, excludeFile, authed, uploadVars, notifyVars,
                   schedVars, messages, raisedIn, exitCode>>

\* .env is missing: prompt_and_save_env runs first.
PromptAndLoadConfig ==
    /\ pc = "config"
    /\ script # "Backup-ToB2"
    /\ \E x \in TypedExcludes, w \in TypedWebhooks, t \in TypedSchedules :
        /\ excludeFile' = SaveExclude(script, x, excludeFile)
        /\ cfg' = [discord_webhook |->
                       IF script = "backup_to_b2" /\ w # <<>> THEN Str(w) ELSE None,
                   schedule |->
                       IF script = "old_goody" THEN Str(t) ELSE None]
    /\ pc' = MainNext(script, "config")
    /\ UNCHANGED <<envVars, authed, uploadVars, notifyVars, schedVars,
                   messages, raisedIn, exitCode>>

\* get_user_input of Backup-ToB2.py
GetUserInput ==
    /\ pc = "config"
    /\ script = "Backup-ToB2"
    /\ IF rootExists
       THEN /\ pc' = MainNext(script, "config")
            /\ UNCHANGED <<messages, raisedIn, exitCode>>
       ELSE Exit1("directory does not exist")
    /\ UNCHANGED <<envVars, excludeFile, cfg, authed, uploadVars, notifyVars,
                   schedVars>>

\* connect_to_b2 / authorize_account
ConnectToB2 ==
    /\ pc = "connect"
    /\ \E ok \in BOOLEAN :
        IF ok
        THEN /\ authed' = TRUE
             /\ pc' = MainNext(script, "connect")
             /\ UNCHANGED <<raisedIn, exitCode>>
        ELSE /\ Crash("connect_to_b2")
             /\ UNCHANGED authed
    /\ UNCHANGED <<envVars, excludeFile, cfg, uploadVars, notifyVars, schedVars,
                   messages>>

\* get_bucket_by_name, the first statement of the upload function
GetBucket ==
    /\ pc = "bucket"
    /\ \E r \in BucketResults :
        IF r = "ok"
        THEN /\ pc' = "upload"
             /\ UNCHANGED <<messages, raisedIn, exitCode>>
        ELSE IF script = "Backup-ToB2" /\ r = "NonExistentBucket"
        THEN Exit1("bucket does not exist")
        ELSE /\ Crash("get_bucket_by_name")
             /\ UNCHANGED messages
    /\ UNCHANGED <<envVars, excludeFile, cfg, authed, uploadVars, notifyVars,
                   schedVars>>

-----------------------------------------------------------------------------
(* The upload loop: for file in root.rglob("*") *)

\* One iteration: rglob yields entry e, and the loop body runs on it.  r is
\* what the upload call does when the body reaches it.
UploadStep ==
    /\ pc = "upload"
    /\ rootExists
    /\ Len(visited) < MaxEntries
    /\ \E e \in Entries, r \in {"ok"} \cup UploadErrors :
        /\ \A i \in 1..Len(visited) : visited[i].path # e.path
        /\ visited' = Append(visited, e)
        /\ IF e.kind # "file"
           THEN /\ r = "ok"
                /\ UNCHANGED <<stats, log, uploadCalls, pc, raisedIn, exitCode>>
           ELSE IF should_exclude(script, e.path, excludeFile)
           THEN /\ r = "ok"
                /\ stats' = IF script = "backup_to_b2"
                            THEN RecordSkipped(stats) ELSE stats
                /\ log' = IF script = "Backup-ToB2" THEN log
                          ELSE Append(log, [file |-> e.path, outcome |-> "Skipped"])
                /\ UNCHANGED <<uploadCalls, pc, raisedIn, exitCode>>
           ELSE /\ uploadCalls' =
                       Append(uploadCalls,
                              [file |-> e.path, remote |-> Remote(e.path),
                               result |-> r])
                /\ IF r = "ok"
                   THEN /\ stats' = IF script = "backup_to_b2"
                                    THEN RecordUploaded(stats) ELSE stats
                        /\ log' = Append(log, [file |-> e.path,
                                               outcome |-> UploadLine(script, r)])
                        /\ UNCHANGED <<pc, raisedIn, exitCode>>
                   ELSE IF CatchesUploadError(script)
                   THEN /\ stats' = RecordFailed(stats, Remote(e.path), r)
                        /\ log' = Append(log, [file |-> e.path,
                                               outcome |-> UploadLine(script, r)])
                        /\ UNCHANGED <<pc, raisedIn, exitCode>>
                   ELSE /\ Crash("upload_directory_to_b2")
                        /\ log' = IF script = "backup_to_b2" THEN log
                                  ELSE Append(log, [file |-> e.path,
                                                    outcome |-> UploadLine(script, r)])
                        /\ UNCHANGED stats
    /\ UNCHANGED <<envVars, excludeFile, cfg, authed, traversalComplete,
                   notifyVars, schedVars, messages>>

\* rglob has nothing more to yield (nothing at all under a root that is no
\* directory): the loop ends and the upload function returns to main().
RglobExhausted ==
    /\ pc = "upload"
    /\ traversalComplete' = TRUE
    /\ pc' = MainNext(script, "upload")
    /\ UNCHANGED <<envVars, excludeFile, cfg, authed, visited, stats, log,
                   uploadCalls, notifyVars, schedVars, messages, raisedIn,
                   exitCode>>

-----------------------------------------------------------------------------
(* send_discord_summary of backup_to_b2.py *)

Summary(st) == [uploaded |-> st.files_uploaded, skipped |-> st.files_skipped,
                failed |-> st.files_failed]

\* lf is the log artifact as found on disk, ioOk whether stat() and
\* open("rb") succeed on it, postOk whether requests.post returns.
SendDiscordSummary ==
    /\ pc = "notify"
    /\ IF Falsy(cfg.discord_webhook)
       THEN /\ pc' = MainNext(script, "notify")
            /\ UNCHANGED <<notifyVars, messages, raisedIn, exitCode>>
       ELSE \E lf \in LogFiles, ioOk \in BOOLEAN, postOk \in BOOLEAN :
            /\ logFile' = lf
            /\ IF lf.exists /\ ~ioOk
               THEN /\ postOk
                    /\ Crash("send_discord_summary")
                    /\ UNCHANGED <<logOpened, postCalls, messages>>
               ELSE /\ lf.exists \/ ioOk
                    /\ logOpened' = CanAttach(lf)
                    /\ postCalls' =
                           Append(postCalls,
                                  [content |-> Summary(stats),
                                   attached |-> CanAttach(lf), ok |-> postOk])
                    /\ messages' = IF postOk THEN messages
                                   ELSE Append(messages, "Discord webhook failed")
                    /\ pc' = MainNext(script, "notify")
                    /\ UNCHANGED <<raisedIn, exitCode>>
    /\ UNCHANGED <<envVars, excludeFile, cfg, authed, uploadVars, schedVars>>

-----------------------------------------------------------------------------
(* schedule_task of old_goody.py *)

\* created is whether the scheduler holds the task once schtasks has run;
\* its exit status is not looked at.
ScheduleTask ==
    /\ pc = "schedule"
    /\ IF cfg.schedule.none
       THEN /\ Crash("schedule_task")
            /\ UNCHANGED schedVars
       ELSE LET parts == Split(cfg.schedule.v, ":")
            IN  IF Len(parts) # 2
                THEN /\ Crash("schedule_task")
                     /\ UNCHANGED schedVars
                ELSE \E created \in BOOLEAN :
                     /\ schedCalls' =
                            Append(schedCalls,
                                   [sc |-> "DAILY",
                                    st |-> Zfill2(parts[1]) \o <<":">>
                                               \o Zfill2(parts[2])])
                     /\ taskExists' = created
                     /\ pc' = MainNext(script, "schedule")
                     /\ UNCHANGED <<raisedIn, exitCode>>
    /\ UNCHANGED <<envVars, excludeFile, cfg, authed, uploadVars, notifyVars,
                   messages>>

\* The last statement of main(): the completion message; exit status 0.
PrintComplete ==
    /\ pc = "print"
    /\ messages' = Append(messages, CompletionMessage(script))
    /\ pc' = "done"
    /\ exitCode' = 0
    /\ UNCHANGED <<envVars, excludeFile, cfg, authed, uploadVars, notifyVars,
                   schedVars, raisedIn>>

Next ==
    \/ LoadStoredConfig
    \/ PromptAndLoadConfig
    \/ GetUserInput
    \/ ConnectToB2
    \/ GetBucket
    \/ UploadStep
    \/ RglobExhausted
    \/ SendDiscordSummary
    \/ ScheduleTask
    \/ PrintComplete

Spec == Init /\ [][Next]_vars

-----------------------------------------------------------------------------
(* Properties *)

IsFileAt(i) == visited[i].kind = "file"

NumFilesVisited == Cardinality({i \in 1..Len(visited) : IsFileAt(i)})

Logged(p, o) == \E j \in 1..Len(log) : log[j] = [file |-> p, outcome |-> o]

CallsFor(p) == {j \in 1..Len(uploadCalls) : uploadCalls[j].file = p}

UploadFailed(p) == \E j \in CallsFor(p) : uploadCalls[j].result # "ok"

\* C1: in backup_to_b2.py, at every point of the traversal and at its end,
\* files_uploaded + files_skipped + files_failed is the number of regular
\* files the traversal has processed; directories count for nothing.
C1_CountersSumToFiles ==
    script = "backup_to_b2" =>
        stats.files_uploaded + stats.files_skipped + stats.files_failed
            = NumFilesVisited

C1_Witness ==
    /\ script = "backup_to_b2"
    /\ traversalComplete
    /\ stats.files_uploaded = 1
    /\ stats.files_skipped = 1
    /\ stats.files_failed = 1

\* C2: in backup_to_b2.py a failing upload never aborts the traversal: the
\* failure is recorded as Failed with its detail in stats.errors, every
\* regular file visited after it has its own recorded outcome, and the run
\* leaves the upload loop only with the traversal complete.
C2_UploadFailureIsolated ==
    script = "backup_to_b2" =>
        /\ raisedIn # "upload_directory_to_b2"
        /\ (uploadCalls # <<>> /\ pc # "upload") => traversalComplete
        /\ \A i \in 1..Len(visited) :
            (IsFileAt(i) /\ UploadFailed(visited[i].path)) =>
                /\ Logged(visited[i].path, "Failed")
                /\ \E k \in 1..Len(stats.errors), c \in CallsFor(visited[i].path) :
                    /\ stats.errors[k].remote = Remote(visited[i].path)
                    /\ stats.errors[k].detail = uploadCalls[c].result
                /\ \A j \in (i + 1)..Len(visited) :
                    IsFileAt(j) =>
                        \/ Logged(visited[j].path, "Uploaded")
                        \/ Logged(visited[j].path, "Skipped")
                        \/ Logged(visited[j].path, "Failed")

C2_Witness ==
    /\ script = "backup_to_b2"
    /\ traversalComplete
    /\ Len(visited) = 3
    /\ IsFileAt(1) /\ UploadFailed(visited[1].path)
    /\ IsFileAt(2) /\ Logged(visited[2].path, "Uploaded")
    /\ IsFileAt(3) /\ Logged(visited[3].path, "Skipped")

\* The exclusion set: the non-blank lines of exclude_patterns.txt, stripped.
ExclusionSet ==
    IF excludeFile.exists
    THEN {Strip(excludeFile.lines[i]) : i \in 1..Len(excludeFile.lines)} \ {<<>>}
    ELSE {}

\* C3: in backup_to_b2.py a regular file whose lower-cased extension is in the
\* exclusion set is recorded as Skipped and no upload call is made for it; a
\* file whose extension is not in the set (the set may be empty or the list
\* absent) is never recorded as Skipped.
C3_ExcludedIffSkipped ==
    script = "backup_to_b2" =>
        \A i \in 1..Len(visited) :
            IsFileAt(i) =>
                LET p == visited[i].path
                IN  IF Lower(Suffix(p)) \in ExclusionSet
                    THEN Logged(p, "Skipped") /\ CallsFor(p) = {}
                    ELSE ~Logged(p, "Skipped")

C3_Witness ==
    /\ script = "backup_to_b2"
    /\ Logged(<<"l", ".", "T">>, "Skipped")
    /\ Logged(<<".", "t">>, "Uploaded")
    /\ stats.files_skipped = 1

\* C4: with a webhook configured, nothing that fails inside
\* send_discord_summary aborts the run of backup_to_b2.py.
C4_NotificationNeverAborts ==
    (script = "backup_to_b2" /\ ~Falsy(cfg.discord_webhook)) =>
        raisedIn # "send_discord_summary"

\* C5: a run whose local root does not exist is stopped before any traversal
\* or upload starts, and never completes with exit status 0.
C5_MissingRootIsFatal ==
    ~rootExists =>
        /\ pc \notin {"upload", "notify", "schedule", "print", "done"}
        /\ ~traversalComplete
        /\ exitCode # 0

\* C6: no upload call is made before authentication has succeeded; the
\* notification is posted only once the traversal is complete and every
\* regular file visited has its recorded outcome; schtasks is run only once
\* the traversal is complete.
C6_StagesOrdered ==
    /\ uploadCalls # <<>> => authed
    /\ postCalls # <<>> =>
        /\ traversalComplete
        /\ \A i \in 1..Len(visited) :
            IsFileAt(i) => \E j \in 1..Len(log) : log[j].file = visited[i].path
        /\ postCalls[1].content.uploaded + postCalls[1].content.skipped
               + postCalls[1].content.failed = NumFilesVisited
    /\ schedCalls # <<>> => traversalComplete /\ authed

C6_Witness ==
    /\ postCalls # <<>>
    /\ Len(uploadCalls) = 2
    /\ NumFilesVisited = 3

\* C7: "task scheduled" is reported only if the host scheduler holds the task
\* after the registration call.
C7_ScheduledOnlyIfTaskExists ==
    (\E i \in 1..Len(messages) :
        messages[i] = "Backup complete and task scheduled!") => taskExists

\* C8: in old_goody.py, with no schedule time configured, the run makes no
\* scheduler call and completes normally after the upload.
C8_NoScheduleIsNoOp ==
    (/\ script = "old_goody"
     /\ traversalComplete
     /\ Falsy(cfg.schedule)) =>
        /\ schedCalls = <<>>
        /\ pc # "crashed"

\* C9: in backup_to_b2.py, with no webhook configured (absent or empty) no
\* POST is made and the log is not opened; with one configured at most one
\* POST is made, and the log is attached only if it exists and is strictly
\* smaller than 7,500,000 bytes.
C9_NotifierCalls ==
    script = "backup_to_b2" =>
        /\ (cfg.discord_webhook.none \/ cfg.discord_webhook.v = <<>>) =>
            postCalls = <<>> /\ ~logOpened
        /\ Len(postCalls) <= 1
        /\ \A i \in 1..Len(postCalls) :
            postCalls[i].attached => logFile.exists /\ logFile.size < AttachLimit
        /\ logOpened => logFile.exists /\ logFile.size < AttachLimit

C9_Witness ==
    /\ script = "backup_to_b2"
    /\ Len(postCalls) = 1
    /\ postCalls[1].attached
    /\ logFile.size = AttachLimit - 1

\* The files whose upload failed, in the order the traversal visited them.
FailedVisited ==
    SelectSeq(visited, LAMBDA e : e.kind = "file" /\ UploadFailed(e.path))

\* C10: in backup_to_b2.py stats.errors has one entry per failed file, in
\* visiting order; the number of upload calls is files_uploaded +
\* files_failed, one call per non-excluded regular file and none for the rest.
C10_ErrorsAndCalls ==
    script = "backup_to_b2" =>
        /\ Len(stats.errors) = stats.files_failed
        /\ Len(stats.errors) = Len(FailedVisited)
        /\ \A k \in 1..Len(stats.errors) :
            k <= Len(FailedVisited) =>
                stats.errors[k].remote = Remote(FailedVisited[k].path)
        /\ Len(uploadCalls) = stats.files_uploaded + stats.files_failed
        /\ \A i \in 1..Len(visited) :
            Cardinality(CallsFor(visited[i].path)) =
                IF IsFileAt(i) /\ ~Logged(visited[i].path, "Skipped") THEN 1 ELSE 0

C10_Witness ==
    /\ script = "backup_to_b2"
    /\ stats.files_failed = 2
    /\ stats.files_uploaded = 1
    /\ Len(stats.errors) = 2

====
